---- MODULE Spec2Model ----
(***************************************************************************)
(* A model of the elytra-ts helpers: Result, Maybe, RemoteData,            *)
(* RemotePaginate, NonEmptyArray, JsonValue and Tuple.  Every exported     *)
(* function is an operator that returns a record [ret, calls]: ret is the  *)
(* value the function returns and calls is the sequence of invocations it  *)
(* made of the function it was handed, in order.  Each family of helpers   *)
(* has its own specification whose actions call the functions on inputs    *)
(* drawn from small sets.  The transformations are modelled a second time  *)
(* on an object heap, where references and allocation are explicit.        *)
(***************************************************************************)
EXTENDS Integers, Sequences, FiniteSets, TLC

VARIABLES
    remote,     \* RemotePaginate: the RemotePaginate value the caller holds
    rpCall,     \* RemotePaginate: the last call made, its arguments and outcome
    rpCreated,  \* RemotePaginate: TRUE once the held value descends from createRP
    rpSteps,    \* RemotePaginate: number of transformations applied so far
    rsCall,     \* Result: the last call made, its arguments and outcome
    rd,         \* RemoteData: the RemoteData value the caller holds
    rdCall,     \* RemoteData: the last call made, its arguments and outcome
    rdTag0,     \* RemoteData: the tag the held value was constructed with
    rdSteps,    \* RemoteData: number of transformations applied so far
    nea,        \* NonEmptyArray: the NonEmptyArray the caller holds
    neaCall,    \* NonEmptyArray: the last call made, its arguments and outcome
    neaSteps,   \* NonEmptyArray: number of transformations applied so far
    jsCall,     \* JsonValue: the last call made, its argument and how it completed
    hpCall      \* object heap: the last call made, the heap before and after it

vars == <<remote, rpCall, rpCreated, rpSteps, rsCall, rd, rdCall, rdTag0, rdSteps,
          nea, neaCall, neaSteps, jsCall, hpCall>>

rpVars == <<remote, rpCall, rpCreated, rpSteps>>
rsVars == <<rsCall>>
rdVars == <<rd, rdCall, rdTag0, rdSteps>>
neaVars == <<nea, neaCall, neaSteps>>
jsVars == <<jsCall>>
hpVars == <<hpCall>>

(***************************************************************************)
(* Bounds of the model.                                                    *)
(***************************************************************************)
\* the longest chain of transformations applied to one held value
MaxSteps == 3
\* the longest sequence of Results handed to partitionResult
MaxResults == 4
\* the longest text, in tokens, among all the texts handed to parseJsonValue
MaxTokens == 4
\* the longest array of Results handed to partitionResult on the heap
MaxHeapResults == 3

(***************************************************************************)
(* JavaScript values.  A value carries its runtime type, so that           *)
(* undefined, null, 0, "" and false are five different values.             *)
(***************************************************************************)
Undefined == [ty |-> "undefined"]
Null == [ty |-> "null"]
Num(n) == [ty |-> "number", n |-> n]
Str(s) == [ty |-> "string", s |-> s]
Bool(b) == [ty |-> "boolean", b |-> b]

(***************************************************************************)
(* The functions callers hand to the helpers, by name.  Array elements     *)
(* are numbers (plain integers); metas, payloads and errors are            *)
(* JavaScript values; statuses are PaginateStatus records.                 *)
(***************************************************************************)
ElemFns == {"double", "inc", "zero"}
ValFns == {"isNull", "toOne", "toNull"}
StatusFns == {"toNoMore", "retry"}

Apply(fn, x) ==
    CASE fn = "double" -> x * 2                                  \* x => x * 2
      [] fn = "inc" -> x + 1                                     \* x => x + 1
      [] fn = "zero" -> 0                                        \* _ => 0
      [] fn = "isNull" -> Bool(x = Null)                         \* x => x === null
      [] fn = "toOne" -> Num(1)                                  \* _ => 1
      [] fn = "toNull" -> Null                                   \* _ => null
      [] fn = "toNoMore" -> [_t |-> "NoMore"]                    \* _ => ({_t: 'NoMore'})
      [] fn = "retry" ->                                         \* s => s._t === 'Error' ? {_t: 'LoadingMore'} : s
            IF x._t = "Error" THEN [_t |-> "LoadingMore"] ELSE x

\* one invocation fn(x): its value and the record of the invocation
Call(fn, x) == [ret |-> Apply(fn, x), calls |-> <<[fn |-> fn, arg |-> x]>>]

\* a return that invoked nothing
Ret(v) == [ret |-> v, calls |-> <<>>]

\* Array.prototype.map: fn on every element, first to last
ArrayMap(arr, fn) ==
    [ret |-> [i \in 1..Len(arr) |-> Apply(fn, arr[i])],
     calls |-> [i \in 1..Len(arr) |-> [fn |-> fn, arg |-> arr[i]]]]

(***************************************************************************)
(* RemoteData                                                              *)
(***************************************************************************)
notAsked == [_t |-> "NotAsked"]
loading == [_t |-> "Loading"]
failure(error) == [_t |-> "Failure", error |-> error]
success(data) == [_t |-> "Success", data |-> data]

(***************************************************************************)
(* RemotePaginate                                                          *)
(***************************************************************************)
createRP(value, status, meta) ==
    success([value |-> value, status |-> status, meta |-> meta])


\* mutant: the rebuilt Paginate forgets the meta
mapRPValue_DropsMeta(rem, fn) ==
    IF rem._t # "Success" THEN Ret(rem)
    ELSE LET value == rem.data.value
             status == rem.data.status
             mapped == ArrayMap(value, fn)
         IN [ret |-> success([value |-> mapped.ret, status |-> status, meta |-> Undefined]),
             calls |-> mapped.calls]

mapRPValue(rem, fn) ==
    IF rem._t # "Success" THEN Ret(rem)
    ELSE LET value == rem.data.value
             status == rem.data.status
             meta == rem.data.meta
             mapped == ArrayMap(value, fn)
         IN [ret |-> success([value |-> mapped.ret, status |-> status, meta |-> meta]),
             calls |-> mapped.calls]


\* ToBoolean: the values JavaScript treats as false in a condition
Falsy(v) ==
    \/ v = Undefined
    \/ v = Null
    \/ v = Num(0)
    \/ v = Str("")
    \/ v = Bool(FALSE)

\* mutant: the presence test is a truthiness test, meta ? fn(meta) : undefined
mapRPMeta_Truthy(rem, fn) ==
    IF rem._t # "Success" THEN Ret(rem)
    ELSE LET value == rem.data.value
             status == rem.data.status
             meta == rem.data.meta
             newMeta == IF ~Falsy(meta) THEN Call(fn, meta) ELSE Ret(Undefined)
         IN [ret |-> success([value |-> value, status |-> status, meta |-> newMeta.ret]),
             calls |-> newMeta.calls]

mapRPMeta(rem, fn) ==
    IF rem._t # "Success" THEN Ret(rem)
    ELSE LET value == rem.data.value
             status == rem.data.status
             meta == rem.data.meta
             newMeta == IF meta # Undefined THEN Call(fn, meta) ELSE Ret(Undefined)
         IN [ret |-> success([value |-> value, status |-> status, meta |-> newMeta.ret]),
             calls |-> newMeta.calls]


\* mutant: a status that reports an error moves the outer state to Failure
mapRPStatus_FailsOnError(rem, fn) ==
    IF rem._t # "Success" THEN Ret(rem)
    ELSE LET value == rem.data.value
             status == rem.data.status
             meta == rem.data.meta
             newStatus == Call(fn, status)
         IN IF status._t = "Error"
            THEN [ret |-> failure(status.error), calls |-> newStatus.calls]
            ELSE [ret |-> success([value |-> value, status |-> newStatus.ret, meta |-> meta]),
                  calls |-> newStatus.calls]

mapRPStatus(rem, fn) ==
    IF rem._t # "Success" THEN Ret(rem)
    ELSE LET value == rem.data.value
             status == rem.data.status
             meta == rem.data.meta
             newStatus == Call(fn, status)
         IN [ret |-> success([value |-> value, status |-> newStatus.ret, meta |-> meta]),
             calls |-> newStatus.calls]


\* mutant: the two spreads are swapped, [...items, ...value]
appendRP_Swapped(rem, items) ==
    IF rem._t # "Success" THEN Ret(rem)
    ELSE LET value == rem.data.value
             status == rem.data.status
             meta == rem.data.meta
         IN Ret(success([value |-> items \o value, status |-> status, meta |-> meta]))

appendRP(rem, items) ==
    IF rem._t # "Success" THEN Ret(rem)
    ELSE LET value == rem.data.value
             status == rem.data.status
             meta == rem.data.meta
         IN Ret(success([value |-> value \o items, status |-> status, meta |-> meta]))


\* mutant: a RemotePaginate that is not a Success is taken for an empty list
prependRP_FromEmpty(rem, items) ==
    IF rem._t # "Success"
    THEN Ret(success([value |-> items, status |-> [_t |-> "Loaded"], meta |-> Undefined]))
    ELSE LET value == rem.data.value
             status == rem.data.status
             meta == rem.data.meta
         IN Ret(success([value |-> items \o value, status |-> status, meta |-> meta]))

prependRP(rem, items) ==
    IF rem._t # "Success" THEN Ret(rem)
    ELSE LET value == rem.data.value
             status == rem.data.status
             meta == rem.data.meta
         IN Ret(success([value |-> items \o value, status |-> status, meta |-> meta]))

(***************************************************************************)
(* Inputs of the RemotePaginate calls.                                     *)
(***************************************************************************)
Errors == {"timeout", "denied"}
Statuses ==
    {[_t |-> "Loaded"], [_t |-> "LoadingMore"], [_t |-> "NoMore"]}
        \cup {[_t |-> "Error", error |-> e] : e \in Errors}
\* meta absent, and metas present: null, the falsy 0, "" and false, a truthy one
Metas == {Undefined, Null, Num(0), Str(""), Bool(FALSE), Str("next")}
RPValues == {<<>>, <<1>>, <<1, 2>>, <<2, 1, 3>>}
RPItems == {<<>>, <<3>>, <<4, 3>>}

\* the values idle while another family's specification runs
Idle == [op |-> "idle"]

RPIdle ==
    /\ remote = notAsked
    /\ rpCall = Idle
    /\ rpCreated = FALSE
    /\ rpSteps = 0

\* a RemotePaginate that is not (yet) a Success: one of the other RemoteData states
RPInit ==
    /\ remote \in {notAsked, loading} \cup {failure(e) : e \in Errors}
    /\ rpCall = [op |-> "none"]
    /\ rpCreated = FALSE
    /\ rpSteps = 0

CreateRP ==
    /\ rpCall.op = "none"
    /\ \E value \in RPValues, status \in Statuses, meta \in Metas :
          /\ remote' = createRP(value, status, meta)
          /\ rpCall' = [op |-> "createRP", value |-> value, status |-> status,
                        meta |-> meta, out |-> Ret(remote')]
    /\ rpCreated' = TRUE
    /\ UNCHANGED <<rpSteps, rsVars, rdVars, neaVars, jsVars, hpVars>>

\* the caller replaces the value it holds by the call's result
RPStep(out) ==
    /\ rpCall # Idle
    /\ rpSteps < MaxSteps
    /\ rpSteps' = rpSteps + 1
    /\ remote' = out.ret
    /\ UNCHANGED <<rpCreated, rsVars, rdVars, neaVars, jsVars, hpVars>>

MapRPValue ==
    \E fn \in ElemFns :
        LET out == mapRPValue(remote, fn) IN
        /\ RPStep(out)
        /\ rpCall' = [op |-> "mapRPValue", remote |-> remote, fn |-> fn, out |-> out]

MapRPMeta ==
    \E fn \in ValFns :
        LET out == mapRPMeta(remote, fn) IN
        /\ RPStep(out)
        /\ rpCall' = [op |-> "mapRPMeta", remote |-> remote, fn |-> fn, out |-> out]

MapRPStatus ==
    \E fn \in StatusFns :
        LET out == mapRPStatus(remote, fn) IN
        /\ RPStep(out)
        /\ rpCall' = [op |-> "mapRPStatus", remote |-> remote, fn |-> fn, out |-> out]

AppendRP ==
    \E items \in RPItems :
        LET out == appendRP(remote, items) IN
        /\ RPStep(out)
        /\ rpCall' = [op |-> "appendRP", remote |-> remote, items |-> items, out |-> out]

PrependRP ==
    \E items \in RPItems :
        LET out == prependRP(remote, items) IN
        /\ RPStep(out)
        /\ rpCall' = [op |-> "prependRP", remote |-> remote, items |-> items, out |-> out]

RPNext ==
    \/ CreateRP
    \/ MapRPValue
    \/ MapRPMeta
    \/ MapRPStatus
    \/ AppendRP
    \/ PrependRP

(***************************************************************************)
(* Maybe: a Maybe<T> is the value itself (Just) or null (Nothing).         *)
(***************************************************************************)
just(value) == value
nothing == Null

(***************************************************************************)
(* Result                                                                  *)
(***************************************************************************)
ok(value) == [_t |-> "Ok", value |-> value]
err(error) == [_t |-> "Err", error |-> error]

mapResult(result, fn) ==
    IF result._t = "Ok"
    THEN LET c == Call(fn, result.value) IN [ret |-> ok(c.ret), calls |-> c.calls]
    ELSE Ret(result)


\* mutant: the mapped error is wrapped by ok instead of err
mapResultErr_WrapsOk(result, fn) ==
    IF result._t = "Err"
    THEN LET c == Call(fn, result.error) IN [ret |-> ok(c.ret), calls |-> c.calls]
    ELSE Ret(result)

mapResultErr(result, fn) ==
    IF result._t = "Err"
    THEN LET c == Call(fn, result.error) IN [ret |-> err(c.ret), calls |-> c.calls]
    ELSE Ret(result)

fromOk(result) ==
    IF result._t = "Ok" THEN Ret(just(result.value)) ELSE Ret(nothing)

fromErr(result) ==
    IF result._t = "Err" THEN Ret(just(result.error)) ELSE Ret(nothing)


\* mutant: the reducer puts each payload in front of the accumulated ones
partitionReducer_Prepends(accum, result) ==
    LET oks == accum.oks
        errs == accum.errs
    IN IF result._t = "Ok"
       THEN [oks |-> <<result.value>> \o oks, errs |-> errs]
       ELSE [oks |-> oks, errs |-> <<result.error>> \o errs]

\* the reducer partitionResult folds over the results
partitionReducer(accum, result) ==
    LET oks == accum.oks
        errs == accum.errs
    IN IF result._t = "Ok"
       THEN [oks |-> oks \o <<result.value>>, errs |-> errs]
       ELSE [oks |-> oks, errs |-> errs \o <<result.error>>]

\* Array.prototype.reduce from index i on, first to last
RECURSIVE ArrayReduce(_, _, _)
ArrayReduce(arr, i, accum) ==
    IF i > Len(arr) THEN accum
    ELSE ArrayReduce(arr, i + 1, partitionReducer(accum, arr[i]))

partitionResult(results) ==
    Ret(ArrayReduce(results, 1, [oks |-> <<>>, errs |-> <<>>]))

(***************************************************************************)
(* Inputs of the Result calls.  Payloads and errors are JavaScript         *)
(* values; null is a value of JsonValue, so ok(null) is what               *)
(* parseJsonValue returns for the text "null".                             *)
(***************************************************************************)
Payloads == {Num(1), Num(2), Null}
ResultErrors == {Str("a"), Str("b"), Null}
Results == {ok(v) : v \in Payloads} \cup {err(e) : e \in ResultErrors}

SeqsUpTo(S, n) == UNION {[1..k -> S] : k \in 0..n}

RSIdle == rsCall = Idle

RSInit == rsCall = [op |-> "none"]

MapResult ==
    /\ rsCall.op = "none"
    /\ \E result \in Results, fn \in ValFns :
          rsCall' = [op |-> "mapResult", result |-> result, fn |-> fn,
                      out |-> mapResult(result, fn)]
    /\ UNCHANGED <<rpVars, rdVars, neaVars, jsVars, hpVars>>

MapResultErr ==
    /\ rsCall.op = "none"
    /\ \E result \in Results, fn \in ValFns :
          rsCall' = [op |-> "mapResultErr", result |-> result, fn |-> fn,
                      out |-> mapResultErr(result, fn)]
    /\ UNCHANGED <<rpVars, rdVars, neaVars, jsVars, hpVars>>

FromOk ==
    /\ rsCall.op = "none"
    /\ \E result \in Results :
          rsCall' = [op |-> "fromOk", result |-> result, out |-> fromOk(result)]
    /\ UNCHANGED <<rpVars, rdVars, neaVars, jsVars, hpVars>>

FromErr ==
    /\ rsCall.op = "none"
    /\ \E result \in Results :
          rsCall' = [op |-> "fromErr", result |-> result, out |-> fromErr(result)]
    /\ UNCHANGED <<rpVars, rdVars, neaVars, jsVars, hpVars>>

PartitionResult ==
    /\ rsCall.op = "none"
    /\ \E results \in SeqsUpTo(Results, MaxResults) :
          rsCall' = [op |-> "partitionResult", results |-> results,
                      out |-> partitionResult(results)]
    /\ UNCHANGED <<rpVars, rdVars, neaVars, jsVars, hpVars>>

RSNext ==
    \/ MapResult
    \/ MapResultErr
    \/ FromOk
    \/ FromErr
    \/ PartitionResult

(***************************************************************************)
(* RemoteData transformations                                              *)
(***************************************************************************)
mapRD(fn, remoteData) ==
    IF remoteData._t = "Success"
    THEN LET c == Call(fn, remoteData.data)
         IN [ret |-> [remoteData EXCEPT !.data = c.ret], calls |-> c.calls]
    ELSE Ret(remoteData)


\* mutant: the mapped error is stored under data, the error left as it was
mapRDError_WrongField(fn, remoteData) ==
    IF remoteData._t = "Failure"
    THEN LET c == Call(fn, remoteData.error)
         IN [ret |-> [_t |-> remoteData._t, error |-> remoteData.error, data |-> c.ret],
             calls |-> c.calls]
    ELSE Ret(remoteData)

mapRDError(fn, remoteData) ==
    IF remoteData._t = "Failure"
    THEN LET c == Call(fn, remoteData.error)
         IN [ret |-> [remoteData EXCEPT !.error = c.ret], calls |-> c.calls]
    ELSE Ret(remoteData)

\* Inputs: Success data are numbers, Failure errors are JavaScript values
RDData == {0, 1, 3}
RDErrors == {Str("timeout"), Null}

RDIdle ==
    /\ rd = notAsked
    /\ rdCall = Idle
    /\ rdTag0 = "NotAsked"
    /\ rdSteps = 0

RDInit ==
    /\ rd \in {notAsked, loading}
                \cup {failure(e) : e \in RDErrors}
                \cup {success(d) : d \in RDData}
    /\ rdCall = [op |-> "none"]
    /\ rdTag0 = rd._t
    /\ rdSteps = 0

RDStep(out) ==
    /\ rdCall # Idle
    /\ rdSteps < MaxSteps
    /\ rdSteps' = rdSteps + 1
    /\ rd' = out.ret
    /\ UNCHANGED <<rdTag0, rpVars, rsVars, neaVars, jsVars, hpVars>>

MapRD ==
    \E fn \in ElemFns :
        LET out == mapRD(fn, rd) IN
        /\ RDStep(out)
        /\ rdCall' = [op |-> "mapRD", remoteData |-> rd, fn |-> fn, out |-> out]

MapRDError ==
    \E fn \in ValFns :
        LET out == mapRDError(fn, rd) IN
        /\ RDStep(out)
        /\ rdCall' = [op |-> "mapRDError", remoteData |-> rd, fn |-> fn, out |-> out]

RDNext ==
    \/ MapRD
    \/ MapRDError

(***************************************************************************)
(* NonEmptyArray                                                           *)
(***************************************************************************)
nonEmptyArray(first, rest) == [first |-> first, rest |-> rest]

toArray(a) == Ret(<<a.first>> \o a.rest)


\* mutant: first is copied over without fn
mapNEA_SkipsFirst(a, fn) ==
    LET rest == ArrayMap(a.rest, fn)
    IN [ret |-> [first |-> a.first, rest |-> rest.ret], calls |-> rest.calls]

mapNEA(a, fn) ==
    LET first == Call(fn, a.first)
        rest == ArrayMap(a.rest, fn)
    IN [ret |-> [first |-> first.ret, rest |-> rest.ret],
        calls |-> first.calls \o rest.calls]

lastNEA(a) ==
    Ret(IF Len(a.rest) > 0 THEN a.rest[Len(a.rest)] ELSE a.first)

\* mutant: the length counts rest alone
lengthNEA_ForgetsFirst(a) == Ret(Len(a.rest))

lengthNEA(a) == Ret(1 + Len(a.rest))

headNEA(a) == Ret(a.first)

tailNEA(a) == Ret(a.rest)

appendNEA(a, item) ==
    Ret([first |-> a.first, rest |-> a.rest \o <<item>>])

\* mutant: the old first is overwritten instead of moved into rest
prependNEA_DropsHead(a, item) ==
    Ret([first |-> item, rest |-> a.rest])

prependNEA(a, item) ==
    Ret([first |-> item, rest |-> <<a.first>> \o a.rest])

\* Inputs of the NonEmptyArray calls; rest defaults to [] when omitted
NEAFirsts == {1, 2}
NEARests == {<<>>, <<2>>, <<2, 3>>, <<3, 1>>}
NEAItems == {0, 4}

NEAIdle ==
    /\ nea = nonEmptyArray(0, <<>>)
    /\ neaCall = Idle
    /\ neaSteps = 0

NEAInit ==
    /\ \E first \in NEAFirsts, rest \in NEARests :
          nea = nonEmptyArray(first, rest)
    /\ neaCall = [op |-> "none"]
    /\ neaSteps = 0

NEAStep(out) ==
    /\ neaCall # Idle
    /\ neaSteps < MaxSteps
    /\ neaSteps' = neaSteps + 1
    /\ nea' = out.ret
    /\ UNCHANGED <<rpVars, rsVars, rdVars, jsVars, hpVars>>

MapNEA ==
    \E fn \in ElemFns :
        LET out == mapNEA(nea, fn) IN
        /\ NEAStep(out)
        /\ neaCall' = [op |-> "mapNEA", nea |-> nea, fn |-> fn, out |-> out]

AppendNEA ==
    \E item \in NEAItems :
        LET out == appendNEA(nea, item) IN
        /\ NEAStep(out)
        /\ neaCall' = [op |-> "appendNEA", nea |-> nea, item |-> item, out |-> out]

PrependNEA ==
    \E item \in NEAItems :
        LET out == prependNEA(nea, item) IN
        /\ NEAStep(out)
        /\ neaCall' = [op |-> "prependNEA", nea |-> nea, item |-> item, out |-> out]

\* the caller reads the held NonEmptyArray as a plain array
ToArray ==
    /\ neaCall # Idle
    /\ neaCall.op # "toArray"
    /\ neaCall' = [op |-> "toArray", nea |-> nea, out |-> toArray(nea)]
    /\ UNCHANGED <<nea, neaSteps, rpVars, rsVars, rdVars, jsVars, hpVars>>

\* the caller reads the last element, the length, the head or the tail
LastNEA ==
    /\ neaCall # Idle
    /\ neaCall.op # "lastNEA"
    /\ neaCall' = [op |-> "lastNEA", nea |-> nea, out |-> lastNEA(nea)]
    /\ UNCHANGED <<nea, neaSteps, rpVars, rsVars, rdVars, jsVars, hpVars>>

LengthNEA ==
    /\ neaCall # Idle
    /\ neaCall.op # "lengthNEA"
    /\ neaCall' = [op |-> "lengthNEA", nea |-> nea, out |-> lengthNEA(nea)]
    /\ UNCHANGED <<nea, neaSteps, rpVars, rsVars, rdVars, jsVars, hpVars>>

HeadNEA ==
    /\ neaCall # Idle
    /\ neaCall.op # "headNEA"
    /\ neaCall' = [op |-> "headNEA", nea |-> nea, out |-> headNEA(nea)]
    /\ UNCHANGED <<nea, neaSteps, rpVars, rsVars, rdVars, jsVars, hpVars>>

TailNEA ==
    /\ neaCall # Idle
    /\ neaCall.op # "tailNEA"
    /\ neaCall' = [op |-> "tailNEA", nea |-> nea, out |-> tailNEA(nea)]
    /\ UNCHANGED <<nea, neaSteps, rpVars, rsVars, rdVars, jsVars, hpVars>>

NEANext ==
    \/ MapNEA
    \/ AppendNEA
    \/ PrependNEA
    \/ ToArray
    \/ LastNEA
    \/ LengthNEA
    \/ HeadNEA
    \/ TailNEA

(***************************************************************************)
(* JsonValue.  A text is the sequence of its tokens.  JSON.parse is the    *)
(* platform's decoder: it returns the parsed tree when the whole text is   *)
(* one JSON value and throws a SyntaxError otherwise.  A call either       *)
(* returns a value or throws one.                                          *)
(***************************************************************************)
Return(v) == [type |-> "return", value |-> v]
Throw(e) == [type |-> "throw", value |-> e]

\* the string tokens of the texts and the strings they denote
StringTokens == {"\"a\"", "\"b\""}
StringOf(tok) == IF tok = "\"a\"" THEN "a" ELSE "b"

JsonArray(items) == [ty |-> "array", items |-> items]
JsonObject(keys, vals) == [ty |-> "object", keys |-> keys, vals |-> vals]

Parsed(v, next) == [ok |-> TRUE, val |-> v, next |-> next]
Unexpected(toks, i) ==
    [ok |-> FALSE,
     msg |-> IF i > Len(toks) THEN "Unexpected end of JSON input" ELSE "Unexpected token"]

\* a member read again replaces the value its key already has
PutMember(keys, vals, key, val) ==
    IF \E k \in 1..Len(keys) : keys[k] = key
    THEN [keys |-> keys,
          vals |-> [k \in 1..Len(vals) |-> IF keys[k] = key THEN val ELSE vals[k]]]
    ELSE [keys |-> keys \o <<key>>, vals |-> vals \o <<val>>]

RECURSIVE ParseValue(_, _), ParseElements(_, _, _), ParseMembers(_, _, _, _)

\* value: a literal, a string, an array or an object, from token i on
ParseValue(toks, i) ==
    IF i > Len(toks) THEN Unexpected(toks, i)
    ELSE CASE toks[i] = "1" -> Parsed(Num(1), i + 1)
           [] toks[i] = "null" -> Parsed(Null, i + 1)
           [] toks[i] = "true" -> Parsed(Bool(TRUE), i + 1)
           [] toks[i] \in StringTokens -> Parsed(Str(StringOf(toks[i])), i + 1)
           [] toks[i] = "[" ->
                 IF i + 1 <= Len(toks) /\ toks[i + 1] = "]"
                 THEN Parsed(JsonArray(<<>>), i + 2)
                 ELSE ParseElements(toks, i + 1, <<>>)
           [] toks[i] = "{" ->
                 IF i + 1 <= Len(toks) /\ toks[i + 1] = "}"
                 THEN Parsed(JsonObject(<<>>, <<>>), i + 2)
                 ELSE ParseMembers(toks, i + 1, <<>>, <<>>)
           [] OTHER -> Unexpected(toks, i)

\* elements: value ("," value)* "]"
ParseElements(toks, i, items) ==
    LET v == ParseValue(toks, i) IN
    IF ~v.ok THEN v
    ELSE IF v.next > Len(toks) THEN Unexpected(toks, v.next)
    ELSE IF toks[v.next] = "," THEN ParseElements(toks, v.next + 1, items \o <<v.val>>)
    ELSE IF toks[v.next] = "]" THEN Parsed(JsonArray(items \o <<v.val>>), v.next + 1)
    ELSE Unexpected(toks, v.next)

\* members: string ":" value ("," string ":" value)* "}"
ParseMembers(toks, i, keys, vals) ==
    IF i > Len(toks) \/ toks[i] \notin StringTokens THEN Unexpected(toks, i)
    ELSE IF i + 1 > Len(toks) \/ toks[i + 1] # ":" THEN Unexpected(toks, i + 1)
    ELSE LET v == ParseValue(toks, i + 2) IN
         IF ~v.ok THEN v
         ELSE LET m == PutMember(keys, vals, StringOf(toks[i]), v.val) IN
              IF v.next > Len(toks) THEN Unexpected(toks, v.next)
              ELSE IF toks[v.next] = "," THEN ParseMembers(toks, v.next + 1, m.keys, m.vals)
              ELSE IF toks[v.next] = "}" THEN Parsed(JsonObject(m.keys, m.vals), v.next + 1)
              ELSE Unexpected(toks, v.next)

SyntaxError(message) == [name |-> "SyntaxError", message |-> message]

\* JSON.parse(s): the tree of the one value that spans the text, or a throw
JSONParse(s) ==
    LET v == ParseValue(s, 1) IN
    IF ~v.ok THEN Throw(SyntaxError(v.msg))
    ELSE IF v.next <= Len(s) THEN Throw(SyntaxError("Unexpected token"))
    ELSE Return(v.val)

\* String(error) of an Error object: its name, ": ", its message
String(error) ==
    Str(IF error.message = "Unexpected token"
        THEN "SyntaxError: Unexpected token"
        ELSE "SyntaxError: Unexpected end of JSON input")

\* mutant: no try/catch around the decoder
parseJsonValue_NoCatch(s) ==
    LET data == JSONParse(s) IN
    IF data.type = "return" THEN Return(ok(data.value)) ELSE data

parseJsonValue(s) ==
    LET data == JSONParse(s) IN
    IF data.type = "return"
    THEN Return(ok(data.value))
    ELSE Return(err(String(data.value)))

\* Inputs: every text of up to MaxTokens tokens, and a few longer ones, among
\* them {"a":1,"b":[true,null]} and the malformed {bad json
JsonTokens == {"[", "]", ",", "1", "null", "bad"}
ExampleText ==
    <<"{", "\"a\"", ":", "1", ",", "\"b\"", ":", "[", "true", ",", "null", "]", "}">>
BadText == <<"{", "bad", "json">>
LongTexts ==
    {ExampleText, BadText,
     SubSeq(ExampleText, 1, 12), SubSeq(ExampleText, 1, 5),
     <<"{", "\"a\"", ":", "1", ",", "}">>, <<"{", "\"a\"", "1", "}">>,
     <<"{", "}">>, <<"{", "\"a\"", ":", "1", ",", "\"a\"", ":", "null", "}">>,
     <<"{", "\"a\"", ":", "{", "\"b\"", ":", "[", "]", "}", "}">>,
     <<"\"a\"">>, <<"true", "true">>}
JsonTexts == SeqsUpTo(JsonTokens, MaxTokens) \cup LongTexts

JSIdle == jsCall = Idle

JSInit == jsCall = [op |-> "none"]

ParseJsonValue ==
    /\ jsCall.op = "none"
    /\ \E s \in JsonTexts :
          jsCall' = [op |-> "parseJsonValue", s |-> s, out |-> parseJsonValue(s)]
    /\ UNCHANGED <<rpVars, rsVars, rdVars, neaVars, hpVars>>

JSNext ==
    \/ ParseJsonValue

(***************************************************************************)
(* The same functions on the object heap.  Objects and arrays live in      *)
(* cells of a heap, a sequence indexed by address; a value is a primitive  *)
(* or a reference to a cell.  An object literal, an array literal and      *)
(* Array.prototype.map allocate a new cell; reading a field or spreading   *)
(* an array reads a cell.  Each function takes the heap and its arguments  *)
(* and returns the heap it leaves and the value it returns.                *)
(***************************************************************************)
Ref(a) == [ref |-> a]
At(h, r) == h[r.ref]
ArrayCell(items) == [items |-> items]
New(h, cell) == [heap |-> Append(h, cell), ret |-> Ref(Len(h) + 1)]
Same(h, v) == [heap |-> h, ret |-> v]

\* fn(x) for the callbacks on statuses, which are objects
ApplyStatus_heap(h, fn, status) ==
    IF fn = "toNoMore" THEN New(h, [_t |-> "NoMore"])
    ELSE IF At(h, status)._t = "Error" THEN New(h, [_t |-> "LoadingMore"])
    ELSE Same(h, status)

ok_heap(h, value) == New(h, [_t |-> "Ok", value |-> value])
err_heap(h, error) == New(h, [_t |-> "Err", error |-> error])
success_heap(h, data) == New(h, [_t |-> "Success", data |-> data])

mapResult_heap(h, result, fn) ==
    IF At(h, result)._t = "Ok"
    THEN ok_heap(h, Apply(fn, At(h, result).value))
    ELSE Same(h, result)

mapResultErr_heap(h, result, fn) ==
    IF At(h, result)._t = "Err"
    THEN err_heap(h, Apply(fn, At(h, result).error))
    ELSE Same(h, result)

partitionReducer_heap(h, accum, result) ==
    LET oks == At(h, accum).oks
        errs == At(h, accum).errs
    IN IF At(h, result)._t = "Ok"
       THEN LET arr == New(h, ArrayCell(At(h, oks).items \o <<At(h, result).value>>))
            IN New(arr.heap, [oks |-> arr.ret, errs |-> errs])
       ELSE LET arr == New(h, ArrayCell(At(h, errs).items \o <<At(h, result).error>>))
            IN New(arr.heap, [oks |-> oks, errs |-> arr.ret])

RECURSIVE ArrayReduce_heap(_, _, _, _)
ArrayReduce_heap(h, arr, i, accum) ==
    IF i > Len(At(h, arr).items) THEN Same(h, accum)
    ELSE LET step == partitionReducer_heap(h, accum, At(h, arr).items[i])
         IN ArrayReduce_heap(step.heap, arr, i + 1, step.ret)

partitionResult_heap(h, results) ==
    LET oks == New(h, ArrayCell(<<>>))
        errs == New(oks.heap, ArrayCell(<<>>))
        accum == New(errs.heap, [oks |-> oks.ret, errs |-> errs.ret])
    IN ArrayReduce_heap(accum.heap, results, 1, accum.ret)

mapRD_heap(h, fn, remoteData) ==
    IF At(h, remoteData)._t = "Success"
    THEN New(h, [At(h, remoteData) EXCEPT !.data = Apply(fn, At(h, remoteData).data)])
    ELSE Same(h, remoteData)

mapRDError_heap(h, fn, remoteData) ==
    IF At(h, remoteData)._t = "Failure"
    THEN New(h, [At(h, remoteData) EXCEPT !.error = Apply(fn, At(h, remoteData).error)])
    ELSE Same(h, remoteData)

mapRPValue_heap(h, rem, fn) ==
    IF At(h, rem)._t # "Success" THEN Same(h, rem)
    ELSE LET data == At(h, At(h, rem).data)
             mapped == New(h, ArrayCell(ArrayMap(At(h, data.value).items, fn).ret))
             paginate == New(mapped.heap, [value |-> mapped.ret, status |-> data.status,
                                           meta |-> data.meta])
         IN success_heap(paginate.heap, paginate.ret)

mapRPMeta_heap(h, rem, fn) ==
    IF At(h, rem)._t # "Success" THEN Same(h, rem)
    ELSE LET data == At(h, At(h, rem).data)
             newMeta == IF data.meta # Undefined THEN Apply(fn, data.meta) ELSE Undefined
             paginate == New(h, [value |-> data.value, status |-> data.status,
                                 meta |-> newMeta])
         IN success_heap(paginate.heap, paginate.ret)

mapRPStatus_heap(h, rem, fn) ==
    IF At(h, rem)._t # "Success" THEN Same(h, rem)
    ELSE LET data == At(h, At(h, rem).data)
             newStatus == ApplyStatus_heap(h, fn, data.status)
             paginate == New(newStatus.heap, [value |-> data.value, status |-> newStatus.ret,
                                              meta |-> data.meta])
         IN success_heap(paginate.heap, paginate.ret)

appendRP_heap(h, rem, items) ==
    IF At(h, rem)._t # "Success" THEN Same(h, rem)
    ELSE LET data == At(h, At(h, rem).data)
             joined == New(h, ArrayCell(At(h, data.value).items \o At(h, items).items))
             paginate == New(joined.heap, [value |-> joined.ret, status |-> data.status,
                                           meta |-> data.meta])
         IN success_heap(paginate.heap, paginate.ret)

prependRP_heap(h, rem, items) ==
    IF At(h, rem)._t # "Success" THEN Same(h, rem)
    ELSE LET data == At(h, At(h, rem).data)
             joined == New(h, ArrayCell(At(h, items).items \o At(h, data.value).items))
             paginate == New(joined.heap, [value |-> joined.ret, status |-> data.status,
                                           meta |-> data.meta])
         IN success_heap(paginate.heap, paginate.ret)

mapNEA_heap(h, a, fn) ==
    LET first == Apply(fn, At(h, a).first)
        rest == New(h, ArrayCell(ArrayMap(At(h, At(h, a).rest).items, fn).ret))
    IN New(rest.heap, [first |-> first, rest |-> rest.ret])

\* mutant: nea.rest.push(item); return nea
appendNEA_heap_Push(h, a, item) ==
    Same([h EXCEPT ![At(h, a).rest.ref].items = Append(@, item)], a)

appendNEA_heap(h, a, item) ==
    LET rest == New(h, ArrayCell(At(h, At(h, a).rest).items \o <<item>>))
    IN New(rest.heap, [first |-> At(h, a).first, rest |-> rest.ret])

prependNEA_heap(h, a, item) ==
    LET rest == New(h, ArrayCell(<<At(h, a).first>> \o At(h, At(h, a).rest).items))
    IN New(rest.heap, [first |-> item, rest |-> rest.ret])

mapFst_heap(h, tuple, fn) ==
    New(h, ArrayCell(<<Apply(fn, At(h, tuple).items[1]), At(h, tuple).items[2]>>))

mapSnd_heap(h, tuple, fn) ==
    New(h, ArrayCell(<<At(h, tuple).items[1], Apply(fn, At(h, tuple).items[2])>>))

(***************************************************************************)
(* The heaps the calls start from: the argument objects as their           *)
(* constructors lay them out, the principal argument in the last cell.     *)
(***************************************************************************)
\* nonEmptyArray(first, rest): the rest array, then the object
HeapOfNEA(first, rest) == <<ArrayCell(rest), [first |-> first, rest |-> Ref(1)]>>

\* an array of Results: the Result objects, then the array of their references
HeapOfResults(results) ==
    results \o <<ArrayCell([i \in 1..Len(results) |-> Ref(i)])>>

\* createRP(value, status, meta): the value array, the status object, the
\* Paginate object, the Success object; any other RemoteData is one object
HeapOfRP(rem) ==
    IF rem._t # "Success" THEN <<rem>>
    ELSE <<ArrayCell(rem.data.value), rem.data.status,
           [value |-> Ref(1), status |-> Ref(2), meta |-> rem.data.meta],
           [_t |-> "Success", data |-> Ref(3)]>>

\* tuple(a, b)
HeapOfTuple(a, b) == <<ArrayCell(<<a, b>>)>>

Last(h) == Ref(Len(h))

RPInputs ==
    {notAsked, loading} \cup {failure(e) : e \in Errors}
        \cup {createRP(v, st, m) : v \in RPValues, st \in Statuses, m \in Metas}
RDInputs ==
    {notAsked, loading} \cup {failure(e) : e \in RDErrors} \cup {success(d) : d \in RDData}

HPIdle == hpCall = Idle

HPInit == hpCall = [op |-> "none"]

\* one call: the heap before, the principal argument, the heap after, the result
HPCall(op, before, input, out) ==
    [op |-> op, before |-> before, input |-> input,
     after |-> out.heap, ret |-> out.ret]

HPMapResult ==
    \E result \in Results, fn \in ValFns :
        LET h == <<result>> IN
        /\ hpCall.op = "none"
        /\ hpCall' = HPCall("mapResult", h, Last(h), mapResult_heap(h, Last(h), fn))
        /\ UNCHANGED <<rpVars, rsVars, rdVars, neaVars, jsVars>>

HPMapResultErr ==
    \E result \in Results, fn \in ValFns :
        LET h == <<result>> IN
        /\ hpCall.op = "none"
        /\ hpCall' = HPCall("mapResultErr", h, Last(h), mapResultErr_heap(h, Last(h), fn))
        /\ UNCHANGED <<rpVars, rsVars, rdVars, neaVars, jsVars>>

HPPartitionResult ==
    \E results \in SeqsUpTo(Results, MaxHeapResults) :
        LET h == HeapOfResults(results) IN
        /\ hpCall.op = "none"
        /\ hpCall' = HPCall("partitionResult", h, Last(h), partitionResult_heap(h, Last(h)))
        /\ UNCHANGED <<rpVars, rsVars, rdVars, neaVars, jsVars>>

HPMapRD ==
    \E remoteData \in RDInputs, fn \in ElemFns :
        LET h == <<remoteData>> IN
        /\ hpCall.op = "none"
        /\ hpCall' = HPCall("mapRD", h, Last(h), mapRD_heap(h, fn, Last(h)))
        /\ UNCHANGED <<rpVars, rsVars, rdVars, neaVars, jsVars>>

HPMapRDError ==
    \E remoteData \in RDInputs, fn \in ValFns :
        LET h == <<remoteData>> IN
        /\ hpCall.op = "none"
        /\ hpCall' = HPCall("mapRDError", h, Last(h), mapRDError_heap(h, fn, Last(h)))
        /\ UNCHANGED <<rpVars, rsVars, rdVars, neaVars, jsVars>>

HPMapRPValue ==
    \E rem \in RPInputs, fn \in ElemFns :
        LET h == HeapOfRP(rem) IN
        /\ hpCall.op = "none"
        /\ hpCall' = HPCall("mapRPValue", h, Last(h), mapRPValue_heap(h, Last(h), fn))
        /\ UNCHANGED <<rpVars, rsVars, rdVars, neaVars, jsVars>>

HPMapRPMeta ==
    \E rem \in RPInputs, fn \in ValFns :
        LET h == HeapOfRP(rem) IN
        /\ hpCall.op = "none"
        /\ hpCall' = HPCall("mapRPMeta", h, Last(h), mapRPMeta_heap(h, Last(h), fn))
        /\ UNCHANGED <<rpVars, rsVars, rdVars, neaVars, jsVars>>

HPMapRPStatus ==
    \E rem \in RPInputs, fn \in StatusFns :
        LET h == HeapOfRP(rem) IN
        /\ hpCall.op = "none"
        /\ hpCall' = HPCall("mapRPStatus", h, Last(h), mapRPStatus_heap(h, Last(h), fn))
        /\ UNCHANGED <<rpVars, rsVars, rdVars, neaVars, jsVars>>

\* the items array is allocated after the RemotePaginate
HPAppendRP ==
    \E rem \in RPInputs, items \in RPItems :
        LET h == HeapOfRP(rem) \o <<ArrayCell(items)>> IN
        /\ hpCall.op = "none"
        /\ hpCall' = HPCall("appendRP", h, Ref(Len(h) - 1), appendRP_heap(h, Ref(Len(h) - 1), Last(h)))
        /\ UNCHANGED <<rpVars, rsVars, rdVars, neaVars, jsVars>>

HPPrependRP ==
    \E rem \in RPInputs, items \in RPItems :
        LET h == HeapOfRP(rem) \o <<ArrayCell(items)>> IN
        /\ hpCall.op = "none"
        /\ hpCall' = HPCall("prependRP", h, Ref(Len(h) - 1), prependRP_heap(h, Ref(Len(h) - 1), Last(h)))
        /\ UNCHANGED <<rpVars, rsVars, rdVars, neaVars, jsVars>>

HPMapNEA ==
    \E first \in NEAFirsts, rest \in NEARests, fn \in ElemFns :
        LET h == HeapOfNEA(first, rest) IN
        /\ hpCall.op = "none"
        /\ hpCall' = HPCall("mapNEA", h, Last(h), mapNEA_heap(h, Last(h), fn))
        /\ UNCHANGED <<rpVars, rsVars, rdVars, neaVars, jsVars>>

HPAppendNEA ==
    \E first \in NEAFirsts, rest \in NEARests, item \in NEAItems :
        LET h == HeapOfNEA(first, rest) IN
        /\ hpCall.op = "none"
        /\ hpCall' = HPCall("appendNEA", h, Last(h), appendNEA_heap(h, Last(h), item))
        /\ UNCHANGED <<rpVars, rsVars, rdVars, neaVars, jsVars>>

HPPrependNEA ==
    \E first \in NEAFirsts, rest \in NEARests, item \in NEAItems :
        LET h == HeapOfNEA(first, rest) IN
        /\ hpCall.op = "none"
        /\ hpCall' = HPCall("prependNEA", h, Last(h), prependNEA_heap(h, Last(h), item))
        /\ UNCHANGED <<rpVars, rsVars, rdVars, neaVars, jsVars>>

HPMapFst ==
    \E a \in NEAFirsts, b \in NEAItems, fn \in ElemFns :
        LET h == HeapOfTuple(a, b) IN
        /\ hpCall.op = "none"
        /\ hpCall' = HPCall("mapFst", h, Last(h), mapFst_heap(h, Last(h), fn))
        /\ UNCHANGED <<rpVars, rsVars, rdVars, neaVars, jsVars>>

HPMapSnd ==
    \E a \in NEAFirsts, b \in NEAItems, fn \in ElemFns :
        LET h == HeapOfTuple(a, b) IN
        /\ hpCall.op = "none"
        /\ hpCall' = HPCall("mapSnd", h, Last(h), mapSnd_heap(h, Last(h), fn))
        /\ UNCHANGED <<rpVars, rsVars, rdVars, neaVars, jsVars>>

HPNext ==
    \/ HPMapResult
    \/ HPMapResultErr
    \/ HPPartitionResult
    \/ HPMapRD
    \/ HPMapRDError
    \/ HPMapRPValue
    \/ HPMapRPMeta
    \/ HPMapRPStatus
    \/ HPAppendRP
    \/ HPPrependRP
    \/ HPMapNEA
    \/ HPAppendNEA
    \/ HPPrependNEA
    \/ HPMapFst
    \/ HPMapSnd

(***************************************************************************)
(* Specifications, one per family of helpers; the families a               *)
(* specification does not exercise stay idle.                              *)
(***************************************************************************)
InitRP == RPInit /\ RSIdle /\ RDIdle /\ NEAIdle /\ JSIdle /\ HPIdle
InitResult == RSInit /\ RPIdle /\ RDIdle /\ NEAIdle /\ JSIdle /\ HPIdle
InitRD == RDInit /\ RPIdle /\ RSIdle /\ NEAIdle /\ JSIdle /\ HPIdle
InitNEA == NEAInit /\ RPIdle /\ RSIdle /\ RDIdle /\ JSIdle /\ HPIdle
InitJson == JSInit /\ RPIdle /\ RSIdle /\ RDIdle /\ NEAIdle /\ HPIdle
InitHeap == HPInit /\ RPIdle /\ RSIdle /\ RDIdle /\ NEAIdle /\ JSIdle

SpecRP == InitRP /\ [][RPNext]_vars
SpecResult == InitResult /\ [][RSNext]_vars
SpecRD == InitRD /\ [][RDNext]_vars
SpecNEA == InitNEA /\ [][NEANext]_vars
SpecJson == InitJson /\ [][JSNext]_vars
SpecHeap == InitHeap /\ [][HPNext]_vars

\* the whole library: a caller works with one family at a time
Init == InitRP \/ InitResult \/ InitRD \/ InitNEA \/ InitJson \/ InitHeap

Next == RPNext \/ RSNext \/ RDNext \/ NEANext \/ JSNext \/ HPNext

Spec == Init /\ [][Next]_vars

(***************************************************************************)
(* Properties of RemotePaginate, checked under SpecRP.                     *)
(***************************************************************************)
RPTransforms == {"mapRPValue", "mapRPMeta", "mapRPStatus", "appendRP", "prependRP"}

\* C1: on a RemotePaginate that is NotAsked, Loading or Failure, each of
\* mapRPValue, mapRPMeta, mapRPStatus, appendRP and prependRP returns its
\* input unchanged (same tag, same error) and never calls the function it
\* was handed, whatever the function or the items.
C1_NonSuccessIsIdentity ==
    (rpCall.op \in RPTransforms /\ rpCall.remote._t \in {"NotAsked", "Loading", "Failure"})
        => /\ rpCall.out.ret = rpCall.remote
           /\ rpCall.out.ret._t = rpCall.remote._t
           /\ rpCall.out.calls = <<>>
           /\ remote = rpCall.remote

C1_Witness ==
    /\ rpCall.op = "prependRP"
    /\ rpCall.remote = failure("denied")
    /\ rpCall.items = <<4, 3>>
    /\ remote = failure("denied")
    /\ rpSteps = 3

\* C2: on a Success, appendRP yields a Success whose value is the existing
\* value followed by the items and prependRP one whose value is the items
\* followed by the existing value, every element keeping its relative order;
\* status and meta are those of the input.
C2_AppendPrependOrder ==
    (rpCall.op \in {"appendRP", "prependRP"} /\ rpCall.remote._t = "Success")
        => LET old == rpCall.remote.data.value
               items == rpCall.items
               new == rpCall.out.ret.data.value
               oldAt == IF rpCall.op = "appendRP" THEN 0 ELSE Len(items)
               itemsAt == IF rpCall.op = "appendRP" THEN Len(old) ELSE 0
           IN /\ rpCall.out.ret._t = "Success"
              /\ Len(new) = Len(old) + Len(items)
              /\ \A i \in 1..Len(old) : new[oldAt + i] = old[i]
              /\ \A j \in 1..Len(items) : new[itemsAt + j] = items[j]
              /\ rpCall.out.ret.data.status = rpCall.remote.data.status
              /\ rpCall.out.ret.data.meta = rpCall.remote.data.meta
              /\ remote = rpCall.out.ret

C2_Witness ==
    /\ rpCall.op = "prependRP"
    /\ rpCall.remote._t = "Success"
    /\ rpCall.remote.data.value = <<1, 2, 4, 3>>
    /\ rpCall.items = <<3>>
    /\ remote.data.value = <<3, 1, 2, 4, 3>>
    /\ remote.data.status = [_t |-> "Error", error |-> "denied"]
    /\ remote.data.meta = Num(0)

\* C3: on a Success, mapRPValue yields a Success whose value has the input's
\* length and holds fn of each input element at the same position, fn being
\* called once per element, first to last; status and meta are untouched.
\* In particular createRP([1,2], Loaded), then appendRP(_, [3]), then
\* mapRPValue(_, x => x * 2) is Success with value [2,4,6], status Loaded and
\* meta undefined.
C3_MapValueElementwise ==
    /\ (rpCall.op = "mapRPValue" /\ rpCall.remote._t = "Success")
          => LET old == rpCall.remote.data.value
                 new == rpCall.out.ret.data.value
             IN /\ rpCall.out.ret._t = "Success"
                /\ Len(new) = Len(old)
                /\ \A i \in 1..Len(old) : new[i] = Apply(rpCall.fn, old[i])
                /\ Len(rpCall.out.calls) = Len(old)
                /\ \A i \in 1..Len(old) :
                      rpCall.out.calls[i] = [fn |-> rpCall.fn, arg |-> old[i]]
                /\ rpCall.out.ret.data.status = rpCall.remote.data.status
                /\ rpCall.out.ret.data.meta = rpCall.remote.data.meta
                /\ remote = rpCall.out.ret
    /\ (/\ rpCall.op = "mapRPValue"
        /\ rpCall.fn = "double"
        /\ rpCall.remote = appendRP(createRP(<<1, 2>>, [_t |-> "Loaded"], Undefined), <<3>>).ret)
          => remote = success([value |-> <<2, 4, 6>>, status |-> [_t |-> "Loaded"],
                               meta |-> Undefined])

C3_Witness ==
    /\ rpCall.op = "mapRPValue"
    /\ rpCall.fn = "double"
    /\ rpSteps = 2
    /\ rpCall.remote._t = "Success"
    /\ rpCall.remote.data.value = <<1, 2, 3>>
    /\ remote = success([value |-> <<2, 4, 6>>, status |-> [_t |-> "Loaded"],
                         meta |-> Undefined])

\* C4: on a Success, mapRPMeta calls fn on the meta exactly when the meta is
\* present: an absent (undefined) meta stays absent and fn is not called,
\* and every present meta, the falsy 0, "" and false included, becomes
\* fn(meta); value and status are untouched either way.
C4_MapMetaIffPresent ==
    (rpCall.op = "mapRPMeta" /\ rpCall.remote._t = "Success")
        => LET meta == rpCall.remote.data.meta
               new == rpCall.out.ret.data
           IN /\ rpCall.out.ret._t = "Success"
              /\ (meta = Undefined) => (new.meta = Undefined /\ rpCall.out.calls = <<>>)
              /\ (meta # Undefined) =>
                    /\ new.meta = Apply(rpCall.fn, meta)
                    /\ rpCall.out.calls = <<[fn |-> rpCall.fn, arg |-> meta]>>
              /\ new.value = rpCall.remote.data.value
              /\ new.status = rpCall.remote.data.status
              /\ remote = rpCall.out.ret

C4_Witness ==
    /\ rpCall.op = "mapRPMeta"
    /\ rpCall.fn = "isNull"
    /\ rpCall.remote._t = "Success"
    /\ rpCall.remote.data.meta = Num(0)
    /\ rpCall.out.calls = <<[fn |-> "isNull", arg |-> Num(0)]>>
    /\ remote.data.meta = Bool(FALSE)

\* C5: createRP(value, status, meta) is a Success holding exactly the value,
\* status and meta it was given, and whatever mapRPValue, mapRPMeta,
\* mapRPStatus, appendRP and prependRP calls follow, the outer state of the
\* held value is still Success.
C5_CreatedStaysSuccess ==
    /\ rpCall.op = "createRP" =>
          /\ remote._t = "Success"
          /\ remote.data.value = rpCall.value
          /\ remote.data.status = rpCall.status
          /\ remote.data.meta = rpCall.meta
    /\ rpCreated => remote._t = "Success"

C5_Witness ==
    /\ rpCreated
    /\ rpSteps = 3
    /\ rpCall.op = "mapRPStatus"
    /\ rpCall.remote._t = "Success"
    /\ rpCall.remote.data.status = [_t |-> "Error", error |-> "timeout"]
    /\ remote._t = "Success"

(***************************************************************************)
(* Properties of Result, checked under SpecResult.                         *)
(***************************************************************************)
IsOk(result) == result._t = "Ok"
IsErr(result) == result._t = "Err"

\* C6: mapResult(ok(x), fn) is ok(fn(x)) and mapResult(err(e), fn) is err(e)
\* with fn not called; mapResultErr(err(e), fn) is err(fn(e)) and
\* mapResultErr(ok(x), fn) is ok(x) with fn not called.
C6_MapResultLaws ==
    /\ (rsCall.op = "mapResult" /\ IsOk(rsCall.result)) =>
          /\ rsCall.out.ret._t = "Ok"
          /\ rsCall.out.ret.value = Apply(rsCall.fn, rsCall.result.value)
          /\ rsCall.out.calls = <<[fn |-> rsCall.fn, arg |-> rsCall.result.value]>>
    /\ (rsCall.op = "mapResult" /\ IsErr(rsCall.result)) =>
          /\ rsCall.out.ret = rsCall.result
          /\ rsCall.out.calls = <<>>
    /\ (rsCall.op = "mapResultErr" /\ IsErr(rsCall.result)) =>
          /\ rsCall.out.ret._t = "Err"
          /\ rsCall.out.ret.error = Apply(rsCall.fn, rsCall.result.error)
          /\ rsCall.out.calls = <<[fn |-> rsCall.fn, arg |-> rsCall.result.error]>>
    /\ (rsCall.op = "mapResultErr" /\ IsOk(rsCall.result)) =>
          /\ rsCall.out.ret = rsCall.result
          /\ rsCall.out.calls = <<>>

C6_Witness ==
    /\ rsCall.op = "mapResultErr"
    /\ rsCall.result = [_t |-> "Err", error |-> Str("a")]
    /\ rsCall.fn = "toOne"
    /\ rsCall.out.ret = [_t |-> "Err", error |-> Num(1)]

\* C7: partitionResult returns as oks the payloads of the Ok results and as
\* errs the errors of the Err results, each in the order they occur in the
\* input, so that the two lengths add up to the input's; for example
\* [ok(1), err('a'), ok(2), err('b')] gives oks [1,2] and errs ['a','b'].
C7_PartitionStable ==
    rsCall.op = "partitionResult" =>
        LET results == rsCall.results
            okSel == SelectSeq(results, IsOk)
            errSel == SelectSeq(results, IsErr)
            oks == rsCall.out.ret.oks
            errs == rsCall.out.ret.errs
        IN /\ Len(oks) + Len(errs) = Len(results)
           /\ Len(oks) = Len(okSel)
           /\ Len(errs) = Len(errSel)
           /\ \A i \in 1..Len(okSel) : oks[i] = okSel[i].value
           /\ \A i \in 1..Len(errSel) : errs[i] = errSel[i].error
           /\ (results = <<[_t |-> "Ok", value |-> Num(1)], [_t |-> "Err", error |-> Str("a")],
                           [_t |-> "Ok", value |-> Num(2)], [_t |-> "Err", error |-> Str("b")]>>)
                 => (oks = <<Num(1), Num(2)>> /\ errs = <<Str("a"), Str("b")>>)

C7_Witness ==
    /\ rsCall.op = "partitionResult"
    /\ rsCall.results = <<[_t |-> "Ok", value |-> Num(1)], [_t |-> "Err", error |-> Str("a")],
                          [_t |-> "Ok", value |-> Num(2)], [_t |-> "Err", error |-> Str("b")]>>
    /\ rsCall.out.ret = [oks |-> <<Num(1), Num(2)>>, errs |-> <<Str("a"), Str("b")>>]

\* C9: fromOk(r) is Just(value) when r is Ok(value) and Nothing when r is
\* Err, fromErr(r) is Just(error) when r is Err(error) and Nothing when r is
\* Ok, and Nothing is told apart from every Just: fromOk(r) is Nothing
\* exactly when r is Err and fromErr(r) is Nothing exactly when r is Ok.
C9_NothingIffOtherVariant ==
    /\ rsCall.op = "fromOk" =>
          /\ IsOk(rsCall.result) => rsCall.out.ret = rsCall.result.value
          /\ (rsCall.out.ret = Null) <=> IsErr(rsCall.result)
    /\ rsCall.op = "fromErr" =>
          /\ IsErr(rsCall.result) => rsCall.out.ret = rsCall.result.error
          /\ (rsCall.out.ret = Null) <=> IsOk(rsCall.result)

(***************************************************************************)
(* Properties of RemoteData, checked under SpecRD.                         *)
(***************************************************************************)
\* C8: mapRD and mapRDError keep the tag of their input: mapRD changes only
\* the data of a Success, to fn(data), and returns NotAsked, Loading and
\* Failure unchanged; mapRDError changes only the error of a Failure, to
\* fn(error), and returns NotAsked, Loading and Success unchanged; so no
\* sequence of the two turns a Failure into a Success or the reverse.
C8_MapRDTagPreserving ==
    /\ rd._t = rdTag0
    /\ rdCall.op \in {"mapRD", "mapRDError"} =>
          /\ rdCall.out.ret._t = rdCall.remoteData._t
          /\ rd = rdCall.out.ret
    /\ rdCall.op = "mapRD" =>
          IF rdCall.remoteData._t = "Success"
          THEN /\ rdCall.out.ret = [_t |-> "Success",
                                    data |-> Apply(rdCall.fn, rdCall.remoteData.data)]
               /\ rdCall.out.calls = <<[fn |-> rdCall.fn, arg |-> rdCall.remoteData.data]>>
          ELSE /\ rdCall.out.ret = rdCall.remoteData
               /\ rdCall.out.calls = <<>>
    /\ rdCall.op = "mapRDError" =>
          IF rdCall.remoteData._t = "Failure"
          THEN /\ rdCall.out.ret = [_t |-> "Failure",
                                    error |-> Apply(rdCall.fn, rdCall.remoteData.error)]
               /\ rdCall.out.calls = <<[fn |-> rdCall.fn, arg |-> rdCall.remoteData.error]>>
          ELSE /\ rdCall.out.ret = rdCall.remoteData
               /\ rdCall.out.calls = <<>>

C8_Witness ==
    /\ rdCall.op = "mapRDError"
    /\ rdCall.remoteData = [_t |-> "Failure", error |-> Str("timeout")]
    /\ rdCall.fn = "isNull"
    /\ rd = [_t |-> "Failure", error |-> Bool(FALSE)]
    /\ rdTag0 = "Failure"
    /\ rdSteps = 3

(***************************************************************************)
(* Properties of NonEmptyArray, checked under SpecNEA.                     *)
(***************************************************************************)
\* C10: toArray(mapNEA(nea, fn)) has the length of toArray(nea) and holds,
\* at each position, fn of the element toArray(nea) has there: fn is applied
\* to first and to every element of rest, in order.
C10_MapNEAElementwise ==
    neaCall.op = "mapNEA" =>
        LET before == toArray(neaCall.nea).ret
            after == toArray(neaCall.out.ret).ret
        IN /\ Len(after) = Len(before)
           /\ \A i \in 1..Len(before) : after[i] = Apply(neaCall.fn, before[i])
           /\ Len(neaCall.out.calls) = Len(before)
           /\ \A i \in 1..Len(before) :
                 neaCall.out.calls[i] = [fn |-> neaCall.fn, arg |-> before[i]]
           /\ nea = neaCall.out.ret

C10_Witness ==
    /\ neaCall.op = "mapNEA"
    /\ neaCall.nea = [first |-> 1, rest |-> <<2, 3>>]
    /\ neaCall.fn = "double"
    /\ nea = [first |-> 2, rest |-> <<4, 6>>]

\* C11: prependNEA(nea, x) has first = x and rest = the old first followed by
\* the old rest; appendNEA(nea, x) has the same first and rest = the old rest
\* followed by x; so toArray(prependNEA(nea, x)) = [x] ++ toArray(nea) and
\* toArray(appendNEA(nea, x)) = toArray(nea) ++ [x].  For example
\* prepend(make(1,[2,3]), 0) = make(0,[1,2,3]) and
\* append(make(1,[2,3]), 4) = make(1,[2,3,4]).
C11_AppendPrependNEA ==
    /\ neaCall.op = "prependNEA" =>
          LET old == neaCall.nea
              new == neaCall.out.ret
          IN /\ new.first = neaCall.item
             /\ Len(new.rest) = Len(old.rest) + 1
             /\ new.rest[1] = old.first
             /\ \A i \in 1..Len(old.rest) : new.rest[i + 1] = old.rest[i]
             /\ toArray(new).ret = <<neaCall.item>> \o toArray(old).ret
             /\ neaCall.out.calls = <<>>
             /\ nea = new
             /\ (old = [first |-> 1, rest |-> <<2, 3>>] /\ neaCall.item = 0)
                   => new = [first |-> 0, rest |-> <<1, 2, 3>>]
    /\ neaCall.op = "appendNEA" =>
          LET old == neaCall.nea
              new == neaCall.out.ret
          IN /\ new.first = old.first
             /\ Len(new.rest) = Len(old.rest) + 1
             /\ new.rest[Len(new.rest)] = neaCall.item
             /\ \A i \in 1..Len(old.rest) : new.rest[i] = old.rest[i]
             /\ toArray(new).ret = toArray(old).ret \o <<neaCall.item>>
             /\ neaCall.out.calls = <<>>
             /\ nea = new
             /\ (old = [first |-> 1, rest |-> <<2, 3>>] /\ neaCall.item = 4)
                   => new = [first |-> 1, rest |-> <<2, 3, 4>>]

C11_Witness ==
    /\ neaCall.op = "prependNEA"
    /\ neaCall.nea = [first |-> 1, rest |-> <<2, 3, 4>>]
    /\ neaCall.item = 0
    /\ nea = [first |-> 0, rest |-> <<1, 2, 3, 4>>]
    /\ neaSteps = 2

\* C14: every NonEmptyArray reached from nonEmptyArray(first, rest) by
\* mapNEA, appendNEA and prependNEA has lengthNEA = 1 + length of tailNEA =
\* length of toArray, at least 1; each append or prepend raises the length
\* by exactly 1 and mapNEA leaves it unchanged; headNEA is the first element
\* of toArray and lastNEA the last one (the last element of rest when rest
\* is not empty, first otherwise).
C14_LengthHeadLast ==
    LET arr == toArray(nea).ret
        len == lengthNEA(nea).ret
    IN /\ len = 1 + Len(tailNEA(nea).ret)
       /\ len = Len(arr)
       /\ len >= 1
       /\ tailNEA(nea).ret = nea.rest
       /\ headNEA(nea).ret = arr[1]
       /\ lastNEA(nea).ret = arr[Len(arr)]
       /\ lastNEA(nea).ret = IF nea.rest # <<>> THEN nea.rest[Len(nea.rest)] ELSE nea.first
       /\ neaCall.op \in {"appendNEA", "prependNEA"} =>
             len = lengthNEA(neaCall.nea).ret + 1
       /\ neaCall.op = "mapNEA" => len = lengthNEA(neaCall.nea).ret
       /\ neaCall.op = "lengthNEA" => (neaCall.out.ret = len /\ neaCall.nea = nea)
       /\ neaCall.op = "headNEA" => (neaCall.out.ret = arr[1] /\ neaCall.nea = nea)
       /\ neaCall.op = "lastNEA" => (neaCall.out.ret = arr[Len(arr)] /\ neaCall.nea = nea)
       /\ neaCall.op = "tailNEA" => (<<nea.first>> \o neaCall.out.ret = arr /\ neaCall.nea = nea)

C14_Witness ==
    /\ neaCall.op = "lengthNEA"
    /\ neaCall.out.ret = 6
    /\ neaSteps = 3
    /\ nea = [first |-> 0, rest |-> <<1, 2, 3, 4, 4>>]
    /\ lastNEA(nea).ret = 4
    /\ headNEA(nea).ret = 0

(***************************************************************************)
(* Properties of JsonValue, checked under SpecJson.                        *)
(***************************************************************************)
\* C12: parseJsonValue never throws: for every text it returns a value,
\* which is Ok(parsed tree) when the decoder accepts the whole text and
\* Err(message string) when the decoder throws; an Err carries no parsed
\* data and an Ok is returned only when the entire text was decoded.
C12_ParseNeverThrows ==
    jsCall.op = "parseJsonValue" =>
        LET s == jsCall.s
            decoded == JSONParse(s)
            whole == ParseValue(s, 1).ok /\ ParseValue(s, 1).next = Len(s) + 1
            result == jsCall.out.value
        IN /\ jsCall.out.type = "return"
           /\ result._t \in {"Ok", "Err"}
           /\ (result._t = "Ok") <=> (decoded.type = "return")
           /\ (result._t = "Ok") <=> whole
           /\ result._t = "Ok" =>
                 /\ DOMAIN result = {"_t", "value"}
                 /\ result.value = decoded.value
           /\ result._t = "Err" =>
                 /\ DOMAIN result = {"_t", "error"}
                 /\ result.error.ty = "string"
                 /\ result.error = String(decoded.value)
           /\ s = ExampleText =>
                 result = [_t |-> "Ok",
                           value |-> JsonObject(<<"a", "b">>,
                                         <<Num(1), JsonArray(<<Bool(TRUE), Null>>)>>)]
           /\ s = BadText => result._t = "Err"

\* a text whose beginning is a complete value, [1], followed by more
C12_Witness ==
    /\ jsCall.op = "parseJsonValue"
    /\ jsCall.s = <<"[", "1", "]", ",">>
    /\ ParseValue(jsCall.s, 1).ok
    /\ jsCall.out.type = "return"
    /\ jsCall.out.value = [_t |-> "Err", error |-> Str("SyntaxError: Unexpected token")]

(***************************************************************************)
(* Properties of the functions on the heap, checked under SpecHeap.        *)
(***************************************************************************)
\* every cell that existed before the call holds what it held
CellsUnchanged ==
    /\ Len(hpCall.after) >= Len(hpCall.before)
    /\ \A a \in 1..Len(hpCall.before) : hpCall.after[a] = hpCall.before[a]

\* the result is an object the call allocated
ResultIsNew == hpCall.ret.ref > Len(hpCall.before)

\* the branches that hand the input back: return result, return remoteData,
\* return remote
ReturnsInputBranch ==
    LET tag == At(hpCall.before, hpCall.input)._t IN
    \/ hpCall.op = "mapResult" /\ tag = "Err"
    \/ hpCall.op = "mapResultErr" /\ tag = "Ok"
    \/ hpCall.op = "mapRD" /\ tag # "Success"
    \/ hpCall.op = "mapRDError" /\ tag # "Failure"
    \/ hpCall.op \in RPTransforms /\ tag # "Success"

\* C13 as stated: after a call of mapResult, mapResultErr, partitionResult,
\* mapRD, mapRDError, mapRPValue, mapRPMeta, mapRPStatus, appendRP,
\* prependRP, mapNEA, appendNEA, prependNEA, mapFst or mapSnd every argument
\* (the items list, the rest array, the value array, status and meta
\* included) equals what it was before the call, and the result is a new
\* value.
C13_NoMutationAndNewResult ==
    hpCall.op \notin {"none", "idle"} => (CellsUnchanged /\ ResultIsNew)

\* C13 as amended: no call changes any of its arguments, and the result is a
\* new object except where the function hands its input back unchanged
\* (mapResult on an Err, mapResultErr on an Ok, mapRD on anything but a
\* Success, mapRDError on anything but a Failure, the five RemotePaginate
\* transformations on anything but a Success), where the result is the input
\* object itself.
C13_NoMutation ==
    hpCall.op \notin {"none", "idle"} =>
        /\ CellsUnchanged
        /\ IF hpCall.op \in {"mapResult", "mapResultErr", "mapRD", "mapRDError"}
                               \cup RPTransforms
              /\ ReturnsInputBranch
           THEN hpCall.ret = hpCall.input /\ hpCall.after = hpCall.before
           ELSE ResultIsNew

C13_Witness ==
    /\ hpCall.op = "appendRP"
    /\ hpCall.before = <<[_t |-> "Failure", error |-> "denied"], ArrayCell(<<4, 3>>)>>
    /\ hpCall.input = Ref(1)
    /\ hpCall.after = hpCall.before
    /\ hpCall.ret = Ref(1)

====
